---- MODULE Spec2Model ----
(***************************************************************************)
(* Model of the mission generation pipeline of gemini_proact_server:       *)
(*   GeminiClient.get_new_missions_for_user  (Generation Orchestrator)     *)
(*   GeminiClient._submit_prompt             (Conversation Driver)         *)
(*   GeminiClient._execute_tool / internet_search_tool (Tool Registry)     *)
(*   GeminiClient._parse_missions            (Response Parser)             *)
(*   BaseMission.add_step / add_steps        (Mission Entity Model)        *)
(*                                                                         *)
(* Raised exceptions are named by the Python exception the code raises.    *)
(* The names the specification uses for them are given next to each.       *)
(***************************************************************************)
EXTENDS Integers, Sequences, FiniteSets, TLC

(***************************************************************************)
(* Bounds of the model (not program constants).                            *)
(***************************************************************************)
\* largest attempt_max a caller passes
MaxAttemptMax == 2
\* number of mission nodes that can be created
MaxNodes == 3
\* number of add_step calls in one run of the entity model
MaxAttach == 2

(***************************************************************************)
(* Program constants.                                                      *)
(***************************************************************************)
\* GeminiClient.py:173  max_depth = 5
max_depth == 5

\* Exceptions, by the name of what the code raises.
\* GeminiClient.py:181  raise RuntimeError(msg)      (ConversationDepthExceeded)
DepthError == "RuntimeError: max prompt submission depth"
\* GeminiClient.py:188  raise InvalidArgument(e)     (BackendRejected)
InvalidArgument == "InvalidArgument"
\* GeminiClient.py:389  self.tools_dict[tool_name]   (UnknownTool)
KeyError == "KeyError"
\* GeminiClient.py:365  raise ValueError(error_msg)  (search result not a str)
SearchTypeError == "ValueError: search result type"
\* GeminiClient.py:351  search_client.quick_search raises (tool failure)
SearchFailure == "SearchClientError"
\* GeminiClient.py:124  raise ValueError(msg)        (mission type)
MissionTypeError == "ValueError: mission type"
\* GeminiClient.py:156  object_hook=Mission.from_dict raises (entity validation)
EntityError == "EntityError"
\* GeminiClient.py:131  json.decoder.JSONDecodeError (MalformedResponse)
JSONDecodeError == "JSONDecodeError"
\* GeminiClient.py:136  'missions' read before assignment
UnboundLocalError == "UnboundLocalError"

\* value of a local variable that has not been assigned (GeminiClient.py:96)
Unbound == <<"<unbound>">>
\* value of 'raised' while no exception is propagating
NoError == "<none>"
\* history: the backend's reply to a submission, a response (line 184) or a
\* rejection (line 186)
Answered(r) == [rejected |-> FALSE, response |-> r]
Rejected == [rejected |-> TRUE, response |-> <<>>]
\* value of 'returned' while the call has not returned
NoValue == <<"<no value>">>

(***************************************************************************)
(* Inputs: what the AI backend, the search collaborator and the caller     *)
(* can supply.                                                             *)
(***************************************************************************)
SearchToolName == "internet_search_tool"
ToolNames == {SearchToolName, "unregistered_tool"}

\* Raw answer text, as a sequence of tokens: "FJ" is the marker ```json,
\* "F" the marker ```, "M1" and "M2" JSON objects Mission.from_dict accepts, "X"
\* a JSON object Mission.from_dict rejects, "[", "," and "]" JSON punctuation.
Texts ==
    { <<"[", "M1", "]">>,
      <<"[", "M1", ",", "M2", "]">>,
      <<"FJ", "[", "M2", "]", "F">>,
      <<"[", "M1">>,
      <<"[", "X", "]">>,
      <<"[", "]">> }

TextPart(t) == [function_call |-> FALSE, text |-> t]
CallPart(n, q) == [function_call |-> TRUE, name |-> n, args |-> q]

\* Responses of the backend: ordered sequences of parts.
AnswerResponses ==
    { <<TextPart(t)>> : t \in Texts } \cup { << TextPart(<<"[", "M2">>), TextPart(<<"]">>) >> }

ToolCallResponses ==
    { <<CallPart(SearchToolName, "q1")>>,
      <<CallPart(SearchToolName, "q2"), CallPart(SearchToolName, "q1")>>,
      <<TextPart(<<"[", "M1", "]">>), CallPart(SearchToolName, "q2")>>,
      <<CallPart("unregistered_tool", "q1")>> }

Responses == AnswerResponses \cup ToolCallResponses

MissionTypes == {"WEEK", "ONGOING", "OTHER"}

VARIABLES
    \* GeminiClient fields
    tavily_api_key, tools, tools_dict,
    \* get_new_missions_for_user: locals and position
    pc, mission_type, attempt_max, attempt, valid_missions_generated,
    new_missions_str, missions, forIdx, raised, returned,
    \* _submit_prompt: locals
    messages, answer_available, cur_depth, response, partIdx,
    \* collaborators: what the storage collaborator was handed
    db,
    \* history variables (observations of the run, not program state)
    submitted, replies, toolLog, parseLog, submissions,
    \* mission entity model: the nodes, and (history) the values each node was
    \* created with and the add_step calls made
    nodes, created, attachLog,
    \* mission entities from and to mappings: the mapping handed in, how it
    \* was handed in, and the outcomes of the construction, of to_dict and of
    \* from_dict on the result of to_dict
    mapping, via, entity, persistable, restored,
    \* requests running at the same time on one client: for each the locals
    \* of its _submit_prompt call and how far it has come
    threads,
    \* the response parser on its own: a raw text, and what _parse_missions
    \* makes of it and of it inside a fenced code block
    raw_text, parsed, parsedFenced

clientVars == <<tavily_api_key, tools, tools_dict>>
orchVars == <<pc, mission_type, attempt_max, attempt, valid_missions_generated,
              new_missions_str, missions, forIdx, raised, returned>>
driverVars == <<messages, answer_available, cur_depth, response, partIdx>>
histVars == <<submitted, replies, toolLog, parseLog, submissions>>
entityVars == <<nodes, created, attachLog>>
codecVars == <<mapping, via, entity, persistable, restored>>
parserVars == <<raw_text, parsed, parsedFenced>>
vars == <<clientVars, orchVars, driverVars, db, histVars, entityVars, codecVars, threads, parserVars>>

(***************************************************************************)
(* Response Parser: GeminiClient._parse_missions                           *)
(***************************************************************************)
RECURSIVE Without(_, _)
\* str.replace(tok, ''): every occurrence of the marker removed
Without(s, tok) ==
    IF s = <<>> THEN <<>>
    ELSE IF Head(s) = tok THEN Without(Tail(s), tok)
         ELSE <<Head(s)>> \o Without(Tail(s), tok)

Contains(s, tok) == \E i \in 1..Len(s) : s[i] = tok

\* lines 154-155
strip_fence(s) ==
    IF Contains(s, "FJ") THEN Without(Without(s, "FJ"), "F") ELSE s

JsonObjects == {"M1", "M2", "X"}

RECURSIVE json_scan(_, _, _, _)
\* json.loads(text, object_hook=Mission.from_dict) on a JSON array: one left to
\* right scan. The hook runs as soon as an object has been read, so the first
\* error met, syntax or entity, is the one raised.
\*   st: "start" before "[", "first" after "[", "obj" after an object,
\*       "comma" after ",", "end" after "]".
json_scan(s, i, st, acc) ==
    IF i > Len(s)
    THEN IF st = "end" THEN [err |-> NoError, value |-> acc]
         ELSE [err |-> JSONDecodeError, value |-> <<>>]
    ELSE LET tok == s[i] IN
         CASE st = "start" /\ tok = "[" -> json_scan(s, i + 1, "first", acc)
           [] st = "first" /\ tok = "]" -> json_scan(s, i + 1, "end", acc)
           [] st \in {"first", "comma"} /\ tok \in JsonObjects ->
                IF tok = "X" THEN [err |-> EntityError, value |-> <<>>]
                ELSE json_scan(s, i + 1, "obj", Append(acc, tok))
           [] st = "obj" /\ tok = "," -> json_scan(s, i + 1, "comma", acc)
           [] st = "obj" /\ tok = "]" -> json_scan(s, i + 1, "end", acc)
           [] OTHER -> [err |-> JSONDecodeError, value |-> <<>>]

json_loads(s) == json_scan(s, 1, "start", <<>>)

\* lines 148-157
parse_missions(missions_str) == json_loads(strip_fence(missions_str))

(***************************************************************************)
(* Conversation Driver helpers: GeminiClient._submit_prompt                *)
(***************************************************************************)
\* the rendered prompt of _generate_missions (lines 291-325), by mission type
Prompt(mt) == <<"prompt", mt>>

\* lines 168-170
UserMessage(prompt) == [role |-> "user", parts |-> <<prompt>>]
\* lines 195-197
ModelMessage(resp) == [role |-> "model", parts |-> resp]
\* lines 200-214
FunctionResponseMessage(name, tool_output) ==
    [role |-> "user",
     parts |-> <<[function_response |-> [name |-> name,
                                         response |-> [result |-> tool_output]]]>>]

\* mutant: the flag is not set when a response arrives
AnswerNeverAvailable == FALSE
\* line 185
AnswerAvailableAfterResponse == TRUE

\* mutant: off by one, the round that reaches the bound already fails
DepthReached(depth) == depth >= max_depth
\* line 178
DepthExceeded(depth) == depth > max_depth

\* mutant: the result of the tool is appended before the response that asked for it
AppendResultThenModel(msgs, resp, name, tool_output) ==
    msgs \o <<FunctionResponseMessage(name, tool_output), ModelMessage(resp)>>
\* mutant: the model's response is not kept in the history
AppendToolResultOnly(msgs, resp, name, tool_output) ==
    msgs \o <<FunctionResponseMessage(name, tool_output)>>
\* lines 195-214: the two appends that follow one executed tool call
AppendToolExchange(msgs, resp, name, tool_output) ==
    msgs \o <<ModelMessage(resp), FunctionResponseMessage(name, tool_output)>>

\* mutant: the part after a handled part is skipped
SkipPart(i) == i + 2
\* line 191: the order in which the for loop visits the parts
NextPart(i) == i + 1

RECURSIVE response_text(_)
\* line 221: response.text, the text parts joined
response_text(resp) ==
    IF resp = <<>> THEN <<>>
    ELSE (IF Head(resp).function_call THEN <<>> ELSE Head(resp).text)
         \o response_text(Tail(resp))

HasToolCall(resp) == \E i \in 1..Len(resp) : resp[i].function_call

(***************************************************************************)
(* Tool Registry                                                           *)
(***************************************************************************)
EmptyDict == [n \in {} |-> ""]

\* lines 370-377; the pair <<tools, tools_dict>> after the call
add_tool_to_toolbox(ts, td, tool, tool_name) ==
    << Append(ts, tool),
       [n \in (DOMAIN td) \cup {tool_name} |-> IF n = tool_name THEN tool ELSE td[n]] >>

\* lines 351-367: what internet_search_tool can do with a query. The search
\* collaborator answers with a string, answers with something that is not a
\* string (ValueError, line 365), or fails.
\* A Python value a tool hands back, by its type; "none" when there is none.
NoResult == [pytype |-> "none", data |-> ""]

\* lines 351-354: what search_client.quick_search can do with a query: answer
\* with a string, answer with something that is no string, or fail
QuickSearchResults(query) ==
    { [raised |-> FALSE, result |-> [pytype |-> "str", data |-> query]],
      [raised |-> FALSE, result |-> [pytype |-> "dict", data |-> query]],
      [raised |-> TRUE, result |-> NoResult] }

\* mutant: the result of the search is handed back without the type check
internet_search_tool_unchecked(r) ==
    IF r.raised THEN [err |-> SearchFailure, value |-> NoResult]
    ELSE [err |-> NoError, value |-> r.result]
\* lines 351-367: internet_search_tool, given what quick_search did
internet_search_tool(r) ==
    IF r.raised THEN [err |-> SearchFailure, value |-> NoResult]
    ELSE IF r.result.pytype # "str" THEN [err |-> SearchTypeError, value |-> r.result]
    ELSE [err |-> NoError, value |-> r.result]

SearchOutcomes(query) == { internet_search_tool(r) : r \in QuickSearchResults(query) }

(***************************************************************************)
(* Initial state: the client after __attrs_post_init__ (lines 45-68), no   *)
(* request made yet.                                                       *)
(***************************************************************************)
\* mutant: the search tool is registered whether or not a key was given
ToolboxAlwaysSearch(key) ==
    add_tool_to_toolbox(<<>>, EmptyDict, SearchToolName, SearchToolName)
\* lines 50-56
ToolboxAfterInit(key) ==
    IF key = "None" THEN <<<<>>, EmptyDict>>
    ELSE add_tool_to_toolbox(<<>>, EmptyDict, SearchToolName, SearchToolName)

InitClient ==
    /\ tavily_api_key \in {"None", "key"}
    /\ tools = ToolboxAfterInit(tavily_api_key)[1]
    /\ tools_dict = ToolboxAfterInit(tavily_api_key)[2]

InitRequest ==
    /\ pc = "idle"
    /\ mission_type = "WEEK"
    /\ attempt_max = 0
    /\ attempt = 0
    /\ valid_missions_generated = FALSE
    /\ new_missions_str = <<>>
    /\ missions = Unbound
    /\ forIdx = 0
    /\ raised = NoError
    /\ returned = NoValue
    /\ messages = <<>>
    /\ answer_available = FALSE
    /\ cur_depth = 0
    /\ response = <<>>
    /\ partIdx = 0
    /\ db = <<>>
    /\ submitted = <<>>
    /\ replies = <<>>
    /\ toolLog = <<>>
    /\ parseLog = <<>>
    /\ submissions = 0

InitEntities ==
    /\ nodes = <<>>
    /\ created = <<>>
    /\ attachLog = <<>>

\* the outcome of an operation that has not run
NotRun == [err |-> "<not run>", obj |-> <<>>]

InitCodec ==
    /\ mapping = <<>>
    /\ via = "<none>"
    /\ entity = NotRun
    /\ persistable = NotRun
    /\ restored = NotRun

\* the requests that run at the same time
Requests == {"r1", "r2"}

\* a request that has not called _submit_prompt yet
IdleThread ==
    [pc |-> "idle", calls |-> 0, messages |-> <<>>, cur_depth |-> 0,
     answer_available |-> FALSE, response |-> <<>>, partIdx |-> 0, raised |-> NoError]

InitThreads == threads = [t \in Requests |-> IdleThread]

\* _parse_missions has not been called
NotParsed == [err |-> "<not called>", value |-> <<>>]

InitParser ==
    /\ raw_text = <<>>
    /\ parsed = NotParsed
    /\ parsedFenced = NotParsed

Init == InitClient /\ InitRequest /\ InitEntities /\ InitCodec /\ InitThreads /\ InitParser

(***************************************************************************)
(* Generation Orchestrator: GeminiClient.get_new_missions_for_user         *)
(***************************************************************************)
\* an exception leaves get_new_missions_for_user: nothing in the call chain
\* catches it
Raise(e) ==
    /\ raised' = e
    /\ pc' = "done"

\* mutant: the loop goes on until an answer parses, however many attempts it takes
WhileConditionUnbounded(valid, att, att_max) == ~valid
\* mutant: off by one, one attempt more than attempt_max
WhileConditionInclusive(valid, att, att_max) == ~valid /\ att <= att_max
\* line 97
WhileCondition(valid, att, att_max) == ~valid /\ att < att_max

\* mutant: a bare except, every exception of the parse is swallowed
CaughtAny(err) == TRUE
\* line 131: the exceptions of _parse_missions the try statement catches
Caught(err) == err = JSONDecodeError

\* mutant: the search tool is registered when a request comes in
CallRegistering ==
    /\ pc = "idle"
    /\ \E mt \in MissionTypes, am \in 0..MaxAttemptMax :
          /\ mission_type' = mt
          /\ attempt_max' = am
    /\ valid_missions_generated' = FALSE
    /\ attempt' = 0
    /\ pc' = "while"
    /\ tools' = add_tool_to_toolbox(tools, tools_dict, SearchToolName, SearchToolName)[1]
    /\ tools_dict' = add_tool_to_toolbox(tools, tools_dict, SearchToolName, SearchToolName)[2]
    /\ UNCHANGED <<tavily_api_key, new_missions_str, missions, forIdx, raised, returned,
                   driverVars, db, histVars, entityVars, codecVars, threads, parserVars>>

\* lines 82-95: the call, its arguments, the user fetched from storage
Call ==
    /\ pc = "idle"
    /\ \E mt \in MissionTypes, am \in 0..MaxAttemptMax :
          /\ mission_type' = mt
          /\ attempt_max' = am
    /\ valid_missions_generated' = FALSE
    /\ attempt' = 0
    /\ pc' = "while"
    /\ UNCHANGED <<clientVars, new_missions_str, missions, forIdx, raised, returned,
                   driverVars, db, histVars, entityVars, codecVars, threads, parserVars>>

\* lines 97-125, 328 and 164-174: one test of the while condition; a new
\* attempt builds the prompt and enters _submit_prompt with a fresh history
WhileHead ==
    /\ pc = "while"
    /\ IF WhileCondition(valid_missions_generated, attempt, attempt_max)
       THEN /\ attempt' = attempt + 1
            /\ IF mission_type \in {"WEEK", "ONGOING"}
               THEN /\ messages' = <<UserMessage(Prompt(mission_type))>>
                    /\ answer_available' = FALSE
                    /\ cur_depth' = 0
                    /\ submitted' = <<>>
                    /\ replies' = <<>>
                    /\ toolLog' = <<>>
                    /\ pc' = "submit"
                    /\ UNCHANGED <<raised, forIdx>>
               ELSE /\ Raise(MissionTypeError)
                    /\ UNCHANGED <<messages, answer_available, cur_depth, submitted,
                                   replies, toolLog, forIdx>>
       ELSE /\ pc' = "for_missions"
            /\ forIdx' = 1
            /\ UNCHANGED <<attempt, messages, answer_available, cur_depth, submitted,
                           replies, toolLog, raised>>
    /\ UNCHANGED <<clientVars, mission_type, attempt_max, valid_missions_generated,
                   new_missions_str, missions, returned, response, partIdx, db,
                   parseLog, submissions, entityVars, codecVars, threads, parserVars>>

\* lines 176-181: the depth test of one round fails
SubmitTooDeep ==
    /\ pc = "submit"
    /\ cur_depth' = cur_depth + 1
    /\ DepthExceeded(cur_depth')
    /\ Raise(DepthError)
    /\ UNCHANGED <<clientVars, mission_type, attempt_max, attempt,
                   valid_missions_generated, new_missions_str, missions, forIdx,
                   returned, messages, answer_available, response, partIdx, db,
                   histVars, entityVars, codecVars, threads, parserVars>>

\* lines 176-185: one round, the backend answers the submitted history
SubmitAnswered ==
    /\ pc = "submit"
    /\ cur_depth' = cur_depth + 1
    /\ ~DepthExceeded(cur_depth')
    /\ submitted' = Append(submitted, messages)
    /\ submissions' = submissions + 1
    /\ \E r \in Responses :
          /\ response' = r
          /\ replies' = Append(replies, Answered(r))
    /\ answer_available' = AnswerAvailableAfterResponse
    /\ partIdx' = 1
    /\ pc' = "for_part"
    /\ UNCHANGED <<clientVars, mission_type, attempt_max, attempt,
                   valid_missions_generated, new_missions_str, missions, forIdx,
                   raised, returned, messages, db, toolLog, parseLog, entityVars, codecVars, threads, parserVars>>

\* mutant: the rejected submission is sent again (the retry decorator that
\* line 159 leaves commented out)
SubmitRejectedRetried ==
    /\ pc = "submit"
    /\ cur_depth' = cur_depth + 1
    /\ ~DepthExceeded(cur_depth')
    /\ submitted' = Append(submitted, messages)
    /\ submissions' = submissions + 1
    /\ replies' = Append(replies, Rejected)
    /\ UNCHANGED <<clientVars, orchVars, messages, answer_available, response,
                   partIdx, db, toolLog, parseLog, entityVars, codecVars, threads, parserVars>>

\* lines 176-188: one round, the backend rejects the submission
SubmitRejected ==
    /\ pc = "submit"
    /\ cur_depth' = cur_depth + 1
    /\ ~DepthExceeded(cur_depth')
    /\ submitted' = Append(submitted, messages)
    /\ submissions' = submissions + 1
    /\ replies' = Append(replies, Rejected)
    /\ Raise(InvalidArgument)
    /\ UNCHANGED <<clientVars, mission_type, attempt_max, attempt,
                   valid_missions_generated, new_missions_str, missions, forIdx,
                   returned, messages, answer_available, response, partIdx, db,
                   toolLog, parseLog, entityVars, codecVars, threads, parserVars>>

\* history: the _execute_tool call made for the current part, the history it
\* was made under and what came of it
ToolCallRecord(out) ==
    [name |-> response[partIdx].name,
     args |-> response[partIdx].args,
     part |-> partIdx,
     submissions |-> Len(submitted),
     history |-> messages,
     outcome |-> out]

\* lines 191-192: a part that is no tool call
PartText ==
    /\ pc = "for_part"
    /\ partIdx <= Len(response)
    /\ ~response[partIdx].function_call
    /\ partIdx' = NextPart(partIdx)
    /\ UNCHANGED <<clientVars, orchVars, messages, answer_available, cur_depth,
                   response, db, histVars, entityVars, codecVars, threads, parserVars>>

\* lines 192-194 and 384-389: a tool call part naming a tool that is not in
\* tools_dict
PartUnknownTool ==
    /\ pc = "for_part"
    /\ partIdx <= Len(response)
    /\ response[partIdx].function_call
    /\ response[partIdx].name \notin DOMAIN tools_dict
    /\ answer_available' = FALSE
    /\ toolLog' = Append(toolLog, ToolCallRecord([err |-> KeyError, value |-> NoResult]))
    /\ Raise(KeyError)
    /\ UNCHANGED <<clientVars, mission_type, attempt_max, attempt,
                   valid_missions_generated, new_missions_str, missions, forIdx,
                   returned, messages, cur_depth, response, partIdx, db, submitted, submissions,
                   replies, parseLog, entityVars, codecVars, threads, parserVars>>

\* lines 192-214, 384-390 and 342-367: a tool call part whose tool is executed
PartToolCall ==
    /\ pc = "for_part"
    /\ partIdx <= Len(response)
    /\ response[partIdx].function_call
    /\ response[partIdx].name \in DOMAIN tools_dict
    /\ answer_available' = FALSE
    /\ \E out \in SearchOutcomes(response[partIdx].args) :
          /\ toolLog' = Append(toolLog, ToolCallRecord(out))
          /\ IF out.err = NoError
             THEN /\ messages' = AppendToolExchange(messages, response,
                                                    response[partIdx].name, out.value)
                  /\ partIdx' = NextPart(partIdx)
                  /\ UNCHANGED <<pc, raised>>
             ELSE /\ Raise(out.err)
                  /\ UNCHANGED <<messages, partIdx>>
    /\ UNCHANGED <<clientVars, mission_type, attempt_max, attempt,
                   valid_missions_generated, new_missions_str, missions, forIdx,
                   returned, cur_depth, response, db, submitted, submissions, replies, parseLog,
                   entityVars, codecVars, threads, parserVars>>

\* lines 217-228 and 176: the parts are used up; the while condition of
\* _submit_prompt either starts another round or the response's text is returned
EndFor ==
    /\ pc = "for_part"
    /\ partIdx > Len(response)
    /\ IF answer_available
       THEN /\ new_missions_str' = response_text(response)
            /\ pc' = "parse"
       ELSE /\ pc' = "submit"
            /\ UNCHANGED new_missions_str
    /\ UNCHANGED <<clientVars, mission_type, attempt_max, attempt,
                   valid_missions_generated, missions, forIdx, raised, returned,
                   driverVars, db, histVars, entityVars, codecVars, threads, parserVars>>

\* lines 126-132
Parse ==
    /\ pc = "parse"
    /\ LET r == parse_missions(new_missions_str) IN
          /\ parseLog' = Append(parseLog, r.err)
          /\ IF r.err = NoError
             THEN /\ missions' = r.value
                  /\ valid_missions_generated' = TRUE
                  /\ pc' = "while"
                  /\ UNCHANGED raised
             ELSE IF Caught(r.err)
                  THEN /\ pc' = "while"
                       /\ UNCHANGED <<missions, valid_missions_generated, raised>>
                  ELSE /\ Raise(r.err)
                       /\ UNCHANGED <<missions, valid_missions_generated>>
    /\ UNCHANGED <<clientVars, mission_type, attempt_max, attempt, new_missions_str,
                   forIdx, returned, driverVars, db, submitted, submissions, replies, toolLog,
                   entityVars, codecVars, threads, parserVars>>

\* line 136 when no attempt assigned 'missions'
ForMissionsUnbound ==
    /\ pc = "for_missions"
    /\ missions = Unbound
    /\ Raise(UnboundLocalError)
    /\ UNCHANGED <<clientVars, mission_type, attempt_max, attempt,
                   valid_missions_generated, new_missions_str, missions, forIdx,
                   returned, driverVars, db, histVars, entityVars, codecVars, threads, parserVars>>

\* lines 136-142: one mission handed to the storage collaborator
AddMissionToDb ==
    /\ pc = "for_missions"
    /\ missions # Unbound
    /\ forIdx <= Len(missions)
    /\ db' = Append(db, missions[forIdx])
    /\ forIdx' = forIdx + 1
    /\ UNCHANGED <<clientVars, pc, mission_type, attempt_max, attempt,
                   valid_missions_generated, new_missions_str, missions, raised,
                   returned, driverVars, histVars, entityVars, codecVars, threads, parserVars>>

\* mutant: the return statement sits inside the for loop
ReturnInsideLoop ==
    /\ pc = "for_missions"
    /\ missions # Unbound
    /\ forIdx > 1 \/ missions = <<>>
    /\ returned' = missions
    /\ pc' = "done"
    /\ UNCHANGED <<clientVars, mission_type, attempt_max, attempt,
                   valid_missions_generated, new_missions_str, missions, forIdx,
                   raised, driverVars, db, histVars, entityVars, codecVars, threads, parserVars>>

\* lines 144-145
Return ==
    /\ pc = "for_missions"
    /\ missions # Unbound
    /\ forIdx > Len(missions)
    /\ returned' = missions
    /\ pc' = "done"
    /\ UNCHANGED <<clientVars, mission_type, attempt_max, attempt,
                   valid_missions_generated, new_missions_str, missions, forIdx,
                   raised, driverVars, db, histVars, entityVars, codecVars, threads, parserVars>>

Next ==
    \/ Call
    \/ WhileHead
    \/ SubmitTooDeep
    \/ SubmitAnswered
    \/ SubmitRejected
    \/ PartText
    \/ PartUnknownTool
    \/ PartToolCall
    \/ EndFor
    \/ Parse
    \/ ForMissionsUnbound
    \/ AddMissionToDb
    \/ Return

Spec == Init /\ [][Next]_vars

\* The program is one sequential thread that is never suspended for good, and
\* every call it makes to the backend, to a tool and to the storage returns:
\* a step that can be taken is taken.
SpecTerminating == Init /\ [][Next]_vars /\ WF_vars(Next)

(***************************************************************************)
(* Mission Entity Model: database/entities/Mission.py                      *)
(*                                                                         *)
(* nodes[i] is the i-th BaseMission object constructed. created[i] holds   *)
(* the ecoPoints and CO2InKg it was constructed with, and attachLog the    *)
(* add_step calls made so far, each with the child's accumulators and      *)
(* number of steps at the time of the call.                                *)
(***************************************************************************)
\* ecoPoints and CO2InKg a node is constructed with: the field defaults
\* (lines 58-59) and the values of the test driver (lines 197-198, 203-204)
StatArgs == { <<0, 0>>, <<10, 20>>, <<5, 15>> }

\* lines 39-42: the values of MissionLevel
LevelProject == "project"
LevelMission == "mission"
LevelStep == "step"

\* lines 111-157: the level each entity class fixes
LevelOf(cls) ==
    CASE cls \in {"WeeklyProject", "OngoingProject"} -> LevelProject
      [] cls \in {"WeeklyMission", "OngoingMission"} -> LevelMission
      [] cls = "Step" -> LevelStep

\* lines 190-205: the classes and statistics objects are constructed with
NodeArgs ==
    { <<"WeeklyProject", 0, 0>>, <<"WeeklyMission", 10, 20>>,
      <<"WeeklyMission", 5, 15>>, <<"Step", 5, 15>> }

\* what a caller can pass to add_step that is not a BaseMission (line 82)
NonMissions == {"not a BaseMission", "OngoingProject()"}
\* Mission.py:85  raise ValueError("Step must be an instance of `BaseMission`")
StepTypeError == "ValueError: step type"

\* lines 50-62: a node as constructed, no steps yet
NewNode(cls, eco, co2) ==
    [level |-> LevelOf(cls), ecoPoints |-> eco, CO2InKg |-> co2, steps |-> <<>>]

\* mutant: the object is appended before its type is looked at
add_step_append_first(ns, parent, obj) ==
    [ns EXCEPT ![parent].steps = Append(@, obj)]
\* lines 82-85: the object is no BaseMission; the error is raised before any
\* statement that touches the parent
add_step_rejected(ns, parent, obj) == ns

\* mutant: the child's statistics replace the parent's instead of adding to them
add_step_overwrite(ns, parent, step) ==
    LET appended == [ns EXCEPT ![parent].steps = Append(@, step)]
        withEco == [appended EXCEPT ![parent].ecoPoints = appended[step].ecoPoints]
    IN  [withEco EXCEPT ![parent].CO2InKg = withEco[step].CO2InKg]

\* mutant: the parent takes over the steps of the child along with the child
add_step_flatten(ns, parent, step) ==
    LET appended == [ns EXCEPT ![parent].steps = Append(@, step) \o ns[step].steps]
        withEco == [appended EXCEPT ![parent].ecoPoints = @ + appended[step].ecoPoints]
    IN  [withEco EXCEPT ![parent].CO2InKg = @ + withEco[step].CO2InKg]

\* mutant: the CO2 of the child is not added to the parent
add_step_eco_only(ns, parent, step) ==
    LET appended == [ns EXCEPT ![parent].steps = Append(@, step)]
    IN  [appended EXCEPT ![parent].ecoPoints = @ + appended[step].ecoPoints]

\* lines 86-90 of add_step, statement by statement; ns is all nodes, the
\* result is all nodes after parent.add_step(step)
add_step(ns, parent, step) ==
    LET appended == [ns EXCEPT ![parent].steps = Append(@, step)]
        withEco == [appended EXCEPT ![parent].ecoPoints = @ + appended[step].ecoPoints]
    IN  [withEco EXCEPT ![parent].CO2InKg = @ + withEco[step].CO2InKg]

RECURSIVE add_steps(_, _, _)
\* lines 93-95
add_steps(ns, parent, steps) ==
    IF steps = <<>> THEN ns
    ELSE add_steps(add_step(ns, parent, Head(steps)), parent, Tail(steps))

\* the record of one add_step call
AttachRecord(ns, parent, step) ==
    [parent |-> parent, child |-> step,
     ecoPoints |-> ns[step].ecoPoints, CO2InKg |-> ns[step].CO2InKg,
     nsteps |-> Len(ns[step].steps)]

RECURSIVE LogSteps(_, _, _, _)
LogSteps(log, ns, parent, steps) ==
    IF steps = <<>> THEN log
    ELSE LogSteps(Append(log, AttachRecord(ns, parent, Head(steps))),
                  add_step(ns, parent, Head(steps)), parent, Tail(steps))

\* Ownership rule of the data model: a child belongs to one parent, and the
\* nodes form trees. Callers are taken to respect it.
HasParent(log, n) == \E i \in 1..Len(log) : log[i].child = n

RECURSIVE IsAncestorOrSelf(_, _, _, _)
IsAncestorOrSelf(log, a, n, fuel) ==
    \/ a = n
    \/ /\ fuel > 0
       /\ \E i \in 1..Len(log) :
             log[i].child = n /\ IsAncestorOrSelf(log, a, log[i].parent, fuel - 1)

CanAttach(log, parent, step) ==
    /\ ~HasParent(log, step)
    /\ ~IsAncestorOrSelf(log, step, parent, Len(log))

\* the children, in the given sequence, can be attached one after the other
RECURSIVE CanAttachAll(_, _, _)
CanAttachAll(log, parent, steps) ==
    IF steps = <<>> THEN TRUE
    ELSE /\ CanAttach(log, parent, Head(steps))
         /\ CanAttachAll(Append(log, [parent |-> parent, child |-> Head(steps)]),
                         parent, Tail(steps))

\* lines 190-205: a mission object is constructed
Create ==
    /\ Len(nodes) < MaxNodes
    /\ \E a \in NodeArgs :
          /\ <<a[2], a[3]>> \in StatArgs
          /\ nodes' = Append(nodes, NewNode(a[1], a[2], a[3]))
          /\ created' = Append(created, [ecoPoints |-> a[2], CO2InKg |-> a[3]])
    /\ UNCHANGED <<clientVars, orchVars, driverVars, db, histVars, attachLog, codecVars, threads, parserVars>>

\* lines 78-90: parent.add_step(step) with a BaseMission
AddStep ==
    /\ Len(attachLog) < MaxAttach
    /\ \E parent \in 1..Len(nodes), step \in 1..Len(nodes) :
          /\ CanAttach(attachLog, parent, step)
          /\ nodes' = add_step(nodes, parent, step)
          /\ attachLog' = Append(attachLog, AttachRecord(nodes, parent, step))
    /\ UNCHANGED <<clientVars, orchVars, driverVars, db, histVars, created, codecVars, threads, parserVars>>

\* lines 93-95 and 207: parent.add_steps([s1, s2])
AddSteps ==
    /\ Len(attachLog) + 2 <= MaxAttach
    /\ \E parent \in 1..Len(nodes), s1 \in 1..Len(nodes), s2 \in 1..Len(nodes) :
          /\ CanAttachAll(attachLog, parent, <<s1, s2>>)
          /\ nodes' = add_steps(nodes, parent, <<s1, s2>>)
          /\ attachLog' = LogSteps(attachLog, nodes, parent, <<s1, s2>>)
    /\ UNCHANGED <<clientVars, orchVars, driverVars, db, histVars, created, codecVars, threads, parserVars>>

\* lines 82-85: parent.add_step(step) with something that is no BaseMission
AddStepRejected ==
    /\ raised = NoError
    /\ \E parent \in 1..Len(nodes), step \in NonMissions :
          /\ nodes' = add_step_rejected(nodes, parent, step)
          /\ raised' = StepTypeError
    /\ UNCHANGED <<clientVars, pc, mission_type, attempt_max, attempt,
                   valid_missions_generated, new_missions_str, missions, forIdx,
                   returned, driverVars, db, histVars, created, attachLog, codecVars, threads, parserVars>>

NextMission ==
    \/ Create
    \/ AddStep
    \/ AddSteps
    \/ AddStepRejected

SpecMission == Init /\ [][NextMission]_vars

(***************************************************************************)
(* Mission entities from and to mappings: Mission.py                       *)
(***************************************************************************)
MaxRegenerationLeft == 1
MaxChildren == 2
MaxTimestamp == 2

\* Python's None
None == "None"

\* lines 24-42: the enumerations, as _value2member_map_ has them
MissionStatusMembers ==
    [v \in {"not started", "in progress", "done", "expired"} |->
        CASE v = "not started" -> "MissionStatus.NOT_STARTED"
          [] v = "in progress" -> "MissionStatus.IN_PROGRESS"
          [] v = "done" -> "MissionStatus.DONE"
          [] v = "expired" -> "MissionStatus.EXPIRED"]
MissionPeriodTypeMembers ==
    [v \in {"weekly", "ongoing"} |->
        CASE v = "weekly" -> "MissionPeriodType.WEEKLY"
          [] v = "ongoing" -> "MissionPeriodType.ONGOING"]
MissionLevelMembers ==
    [v \in {LevelProject, LevelMission, LevelStep} |->
        CASE v = LevelProject -> "MissionLevel.PROJECT"
          [] v = LevelMission -> "MissionLevel.MISSION"
          [] v = LevelStep -> "MissionLevel.STEP"]

Members(enum) == { enum[v] : v \in DOMAIN enum }
\* member.value
EnumValue(enum, member) == CHOOSE v \in DOMAIN enum : enum[v] = member
\* isinstance(x, str), for the values a field of the three enumerations takes
IsStr(x) ==
    /\ x # None
    /\ x \notin Members(MissionStatusMembers) \cup Members(MissionPeriodTypeMembers)
                \cup Members(MissionLevelMembers)

\* regenerationLeft: an int or math.inf
Num(n) == [inf |-> FALSE, n |-> n]
\* line 21
ONGOING_PROJECT_REGENERATION_MAX == [inf |-> TRUE, n |-> 0]
\* line 20
WEEKLY_MISSION_REGENERATION_MAX == 3
\* lines 61, 118, 148, 157: regenerationLeft of what can't be regenerated
NotRegenerable == -1

TypeError == "TypeError"
AttributeError == "AttributeError"
\* lines 170, 178, 183
VariantError == "ValueError: level or type"

\* the attributes of BaseMission (lines 50-62) and of OngoingProject (126-128)
BaseMissionFields ==
    {"title", "level", "type", "description", "steps", "status", "deadline", "styleId",
     "ecoPoints", "CO2InKg", "eventId", "regenerationLeft", "createdTimestamp"}
OngoingProjectFields == {"type", "level", "regenerationLeft"}

MissionClasses == {"BaseMission", "WeeklyProject", "WeeklyMission", "OngoingMission", "Step"}
Fields(cls) == IF cls = "OngoingProject" THEN OngoingProjectFields ELSE BaseMissionFields
\* the attributes declared with default=NOTHING
Required(cls) ==
    CASE cls = "BaseMission" -> {"title", "level"}
      [] cls = "OngoingProject" -> {}
      [] OTHER -> {"title"}

\* A dict: the keys it has, and a value for each key it has. 
Dict(keys, val) == [keys |-> keys, val |-> val]
\* what the val of a dict holds for the keys the dict does not have
Blank ==
    [title |-> "", level |-> "", type |-> "", description |-> "", steps |-> <<>>,
     status |-> "", deadline |-> "", styleId |-> "", ecoPoints |-> 0, CO2InKg |-> 0,
     eventId |-> "", regenerationLeft |-> Num(0), createdTimestamp |-> 0]

\* lines 50-62, 111-157: the defaults of the attributes, by class
Defaults(cls, now) ==
    [title |-> "", description |-> "", steps |-> <<>>,
     status |-> "MissionStatus.NOT_STARTED",
     deadline |-> None, styleId |-> None, ecoPoints |-> 0, CO2InKg |-> 0, eventId |-> None,
     createdTimestamp |-> now,
     level |-> IF cls = "BaseMission" THEN "" ELSE MissionLevelMembers[LevelOf(cls)],
     type |-> CASE cls \in {"WeeklyProject", "WeeklyMission"} -> "MissionPeriodType.WEEKLY"
                [] cls \in {"OngoingProject", "OngoingMission"} -> "MissionPeriodType.ONGOING"
                [] OTHER -> None,
     regenerationLeft |-> CASE cls = "WeeklyMission" -> Num(WEEKLY_MISSION_REGENERATION_MAX)
                            [] cls = "OngoingProject" -> ONGOING_PROJECT_REGENERATION_MAX
                            [] OTHER -> Num(NotRegenerable)]

Ok(obj) == [err |-> NoError, obj |-> <<obj>>]
Failed(err) == [err |-> err, obj |-> <<>>]

\* DatabaseEntity.id, the attribute BaseMission inherits: the identifier the
\* storage assigns when the entity is persisted, None before
EntityIds == {"id1", "id2"}
Unassigned == None
\* what has an id: the instances of BaseMission, not those of OngoingProject
Inherited(cls) == IF cls = "OngoingProject" THEN {} ELSE {"id"}

\* the generated __init__: every attribute from the keyword of its name, or
\* from its default
Attributes(cls, kwargs, now) ==
    [f \in Fields(cls) \cup Inherited(cls) \cup {"cls"} |->
        IF f = "cls" THEN cls
        ELSE IF f = "id" THEN Unassigned
        ELSE IF f \in kwargs.keys THEN kwargs.val[f]
        ELSE Defaults(cls, now)[f]]

\* lines 70-75: __attrs_post_init__
post_init(self) ==
    IF IsStr(self.type) /\ self.type \notin DOMAIN MissionPeriodTypeMembers
    THEN Failed(KeyError)
    ELSE IF IsStr(self.level) /\ self.level \notin DOMAIN MissionLevelMembers
    THEN Failed(KeyError)
    ELSE Ok([self EXCEPT
               !["type"] = IF IsStr(@) THEN MissionPeriodTypeMembers[@] ELSE @,
               !["level"] = IF IsStr(@) THEN MissionLevelMembers[@] ELSE @])

\* cls(**kwargs): the attrs __init__ of a keyword-only class, then
\* __attrs_post_init__ where the class has one (OngoingProject, which derives
\* from BaseException, has none)
Construct(cls, kwargs, now) ==
    IF ~(kwargs.keys \subseteq Fields(cls)) THEN Failed(TypeError)
    ELSE IF ~(Required(cls) \subseteq kwargs.keys) THEN Failed(TypeError)
    ELSE IF cls = "OngoingProject" THEN Ok(Attributes(cls, kwargs, now))
    ELSE post_init(Attributes(cls, kwargs, now))

\* isinstance(obj, BaseMission)
IsBaseMission(obj) == obj.cls \in MissionClasses

\* lines 64-68
from_dict(cls, data, now) == Construct(cls, data, now)

\* line 102: [s.id for s in self.steps]
StepIds(steps) == [i \in 1..Len(steps) |-> steps[i].id]

\* lines 98-107: to_dict; the id of the entity itself is deleted from the dict
to_dict(self) ==
    IF IsStr(self.status) THEN Failed(AttributeError)
    ELSE Ok(Dict(BaseMissionFields,
                 [Blank EXCEPT
                    !.title = self.title, !.description = self.description,
                    !.deadline = self.deadline, !.styleId = self.styleId,
                    !.ecoPoints = self.ecoPoints, !.CO2InKg = self.CO2InKg,
                    !.eventId = self.eventId, !.regenerationLeft = self.regenerationLeft,
                    !.createdTimestamp = self.createdTimestamp,
                    !.steps = StepIds(self.steps),
                    !.status = EnumValue(MissionStatusMembers, self.status),
                    !.type = IF self.type # None
                             THEN EnumValue(MissionPeriodTypeMembers, self.type) ELSE None,
                    !.level = EnumValue(MissionLevelMembers, self.level)]))

\* lines 160-185
create_mission_entity_from_dict(d, now) ==
    IF "level" \notin d.keys THEN Failed(KeyError)
    ELSE IF d.val.level = LevelProject THEN
        IF "type" \notin d.keys THEN Failed(KeyError)
        ELSE IF d.val.type = "weekly" THEN Construct("WeeklyProject", d, now)
        ELSE IF d.val.type = "ongoing" THEN Construct("OngoingProject", d, now)
        ELSE Failed(VariantError)
    ELSE IF d.val.level = LevelMission THEN
        IF "type" \notin d.keys THEN Failed(KeyError)
        ELSE IF d.val.type = "weekly" THEN Construct("WeeklyMission", d, now)
        ELSE IF d.val.type = "ongoing" THEN Construct("OngoingMission", d, now)
        ELSE Failed(VariantError)
    ELSE IF d.val.level = LevelStep THEN Construct("Step", d, now)
    ELSE Failed(VariantError)

\* the mappings handed in: which keys they have, and under the keys of the
\* enumerations a value of the enumeration or a string that is none
InputKeys == {"title", "level", "type", "status", "regenerationLeft"}
InputLevels == {LevelProject, LevelMission, LevelStep, "epic"}
InputTypes == {"weekly", "ongoing", "daily"}
InputStatuses == {"done", "cancelled"}

InputVal(keys, l, t, st, rg) ==
    [Blank EXCEPT
       !.title = IF "title" \in keys THEN "Week 3" ELSE @,
       !.level = IF "level" \in keys THEN l ELSE @,
       !.type = IF "type" \in keys THEN t ELSE @,
       !.status = IF "status" \in keys THEN st ELSE @,
       !.regenerationLeft = IF "regenerationLeft" \in keys THEN Num(rg) ELSE @]

Mappings ==
    { Dict(keys, InputVal(keys, l, t, st, rg)) :
         keys \in SUBSET InputKeys, l \in InputLevels, t \in InputTypes,
         st \in InputStatuses, rg \in 0..MaxRegenerationLeft }

Timestamps == 1..MaxTimestamp

\* lines 190-205: a child as the callers of add_step construct it, persisted
\* (it has an id) or not
Children(now) ==
    { [Construct("WeeklyMission",
                 Dict({"title", "ecoPoints", "CO2InKg"},
                      [Blank EXCEPT !.title = "Mission 1", !.ecoPoints = 10, !.CO2InKg = 20]),
                 now).obj[1] EXCEPT !.id = i] : i \in EntityIds \cup {Unassigned} }

\* lines 86-90: add_step on the entity itself
attach(self, step) ==
    LET appended == [self EXCEPT !.steps = Append(@, step)]
        withEco == [appended EXCEPT !.ecoPoints = @ + step.ecoPoints]
    IN  [withEco EXCEPT !.CO2InKg = @ + step.CO2InKg]

\* lines 78-90: entity.add_step(child)
AttachChild ==
    /\ entity.err = NoError
    /\ IsBaseMission(entity.obj[1])
    /\ persistable = NotRun
    /\ Len(entity.obj[1].steps) < MaxChildren
    /\ \E child \in Children(entity.obj[1].createdTimestamp) :
          entity' = Ok(attach(entity.obj[1], child))
    /\ UNCHANGED <<clientVars, orchVars, driverVars, db, histVars, entityVars, threads, parserVars,
                   mapping, via, persistable, restored>>

\* lines 160-185: create_mission_entity_from_dict(d)
CreateEntity ==
    /\ via = "<none>"
    /\ \E d \in Mappings, now \in Timestamps :
          /\ mapping' = <<d>>
          /\ entity' = create_mission_entity_from_dict(d, now)
    /\ via' = "create_mission_entity_from_dict"
    /\ UNCHANGED <<clientVars, orchVars, driverVars, db, histVars, entityVars, threads, parserVars,
                   persistable, restored>>

\* lines 64-68: cls.from_dict(data)
FromDict ==
    /\ via = "<none>"
    /\ \E cls \in MissionClasses, d \in Mappings, now \in Timestamps :
          /\ mapping' = <<d>>
          /\ entity' = from_dict(cls, d, now)
    /\ via' = "from_dict"
    /\ UNCHANGED <<clientVars, orchVars, driverVars, db, histVars, entityVars, threads, parserVars,
                   persistable, restored>>

\* lines 98-107: entity.to_dict(); an OngoingProject has no such method
ToDict ==
    /\ entity.err = NoError
    /\ persistable = NotRun
    /\ persistable' = IF IsBaseMission(entity.obj[1]) THEN to_dict(entity.obj[1])
                      ELSE Failed(AttributeError)
    /\ UNCHANGED <<clientVars, orchVars, driverVars, db, histVars, entityVars, threads, parserVars,
                   mapping, via, entity, restored>>

\* lines 64-68: type(entity).from_dict(entity.to_dict())
FromDictOfToDict ==
    /\ persistable.err = NoError
    /\ restored = NotRun
    /\ \E now \in Timestamps :
          restored' = from_dict(entity.obj[1].cls, persistable.obj[1], now)
    /\ UNCHANGED <<clientVars, orchVars, driverVars, db, histVars, entityVars, threads, parserVars,
                   mapping, via, entity, persistable>>

NextEntity ==
    \/ CreateEntity
    \/ AttachChild
    \/ FromDict
    \/ ToDict
    \/ FromDictOfToDict

SpecEntity == Init /\ [][NextEntity]_vars

(***************************************************************************)
(* Requests running at the same time on one GeminiClient: every request    *)
(* runs _submit_prompt with locals of its own, and shares self.tools_dict  *)
(* with the others. The steps of the requests interleave.                  *)
(***************************************************************************)
MaxCalls == 2

\* the prompt rendered for a request
RequestPrompt(t) == Prompt(IF t = "r1" THEN "WEEK" ELSE "ONGOING")

\* What the backend answers to the call `call` (the request and the number
\* of the call within it): a text, or the request of a search. Text and
\* query carry the call, so that a message tells which call it was made for.
CallResponses(call) ==
    { <<TextPart(call)>>, <<CallPart(SearchToolName, call)>> }

\* mutant: the history of the call before is kept
StartHistoryKept(prev, prompt) == Append(prev, UserMessage(prompt))
\* lines 168-170: messages is a local of the call, made anew
StartHistory(prev, prompt) == <<UserMessage(prompt)>>

\* lines 160-174: _submit_prompt is called: the first call of a request, or
\* the call of the next attempt after an answer that did not parse
StartCall(t) ==
    /\ \/ threads[t].pc = "idle"
       \/ threads[t].pc = "returned"
    /\ threads[t].calls < MaxCalls
    /\ threads' = [threads EXCEPT
          ![t].pc = "submit",
          ![t].calls = @ + 1,
          ![t].messages = StartHistory(@, RequestPrompt(t)),
          ![t].answer_available = FALSE,
          ![t].cur_depth = 0]
    /\ UNCHANGED <<clientVars, orchVars, driverVars, db, histVars, entityVars, codecVars, parserVars>>

\* lines 176-181
RoundTooDeep(t) ==
    /\ threads[t].pc = "submit"
    /\ DepthExceeded(threads[t].cur_depth + 1)
    /\ threads' = [threads EXCEPT
          ![t].cur_depth = @ + 1,
          ![t].pc = "failed",
          ![t].raised = DepthError]
    /\ UNCHANGED <<clientVars, orchVars, driverVars, db, histVars, entityVars, codecVars, parserVars>>

\* lines 176-185
RoundAnswered(t) ==
    /\ threads[t].pc = "submit"
    /\ ~DepthExceeded(threads[t].cur_depth + 1)
    /\ \E r \in CallResponses(<<t, threads[t].calls>>) :
          threads' = [threads EXCEPT
             ![t].cur_depth = @ + 1,
             ![t].response = r,
             ![t].answer_available = AnswerAvailableAfterResponse,
             ![t].partIdx = 1,
             ![t].pc = "for_part"]
    /\ UNCHANGED <<clientVars, orchVars, driverVars, db, histVars, entityVars, codecVars, parserVars>>

\* lines 176-188
RoundRejected(t) ==
    /\ threads[t].pc = "submit"
    /\ ~DepthExceeded(threads[t].cur_depth + 1)
    /\ threads' = [threads EXCEPT
          ![t].cur_depth = @ + 1,
          ![t].pc = "failed",
          ![t].raised = InvalidArgument]
    /\ UNCHANGED <<clientVars, orchVars, driverVars, db, histVars, entityVars, codecVars, parserVars>>

\* lines 191-192
TextPartSeen(t) ==
    /\ threads[t].pc = "for_part"
    /\ threads[t].partIdx <= Len(threads[t].response)
    /\ ~threads[t].response[threads[t].partIdx].function_call
    /\ threads' = [threads EXCEPT ![t].partIdx = NextPart(@)]
    /\ UNCHANGED <<clientVars, orchVars, driverVars, db, histVars, entityVars, codecVars, parserVars>>

\* lines 192-194 and 384-389
UnknownToolPart(t) ==
    /\ threads[t].pc = "for_part"
    /\ threads[t].partIdx <= Len(threads[t].response)
    /\ threads[t].response[threads[t].partIdx].function_call
    /\ threads[t].response[threads[t].partIdx].name \notin DOMAIN tools_dict
    /\ threads' = [threads EXCEPT
          ![t].answer_available = FALSE,
          ![t].pc = "failed",
          ![t].raised = KeyError]
    /\ UNCHANGED <<clientVars, orchVars, driverVars, db, histVars, entityVars, codecVars, parserVars>>

\* lines 192-214, 384-390 and 342-367
ToolCallPart(t) ==
    /\ threads[t].pc = "for_part"
    /\ threads[t].partIdx <= Len(threads[t].response)
    /\ threads[t].response[threads[t].partIdx].function_call
    /\ threads[t].response[threads[t].partIdx].name \in DOMAIN tools_dict
    /\ \E out \in SearchOutcomes(threads[t].response[threads[t].partIdx].args) :
          threads' =
             IF out.err = NoError
             THEN [threads EXCEPT
                     ![t].answer_available = FALSE,
                     ![t].messages =
                        AppendToolExchange(@, threads[t].response,
                                           threads[t].response[threads[t].partIdx].name,
                                           out.value),
                     ![t].partIdx = NextPart(@)]
             ELSE [threads EXCEPT
                     ![t].answer_available = FALSE,
                     ![t].pc = "failed",
                     ![t].raised = out.err]
    /\ UNCHANGED <<clientVars, orchVars, driverVars, db, histVars, entityVars, codecVars, parserVars>>

\* lines 217-228 and 176
PartsDone(t) ==
    /\ threads[t].pc = "for_part"
    /\ threads[t].partIdx > Len(threads[t].response)
    /\ threads' = [threads EXCEPT
          ![t].pc = IF threads[t].answer_available THEN "returned" ELSE "submit"]
    /\ UNCHANGED <<clientVars, orchVars, driverVars, db, histVars, entityVars, codecVars, parserVars>>

NextThreads ==
    \/ \E t \in Requests : StartCall(t)
    \/ \E t \in Requests : RoundTooDeep(t)
    \/ \E t \in Requests : RoundAnswered(t)
    \/ \E t \in Requests : RoundRejected(t)
    \/ \E t \in Requests : TextPartSeen(t)
    \/ \E t \in Requests : UnknownToolPart(t)
    \/ \E t \in Requests : ToolCallPart(t)
    \/ \E t \in Requests : PartsDone(t)

SpecThreads == Init /\ [][NextThreads]_vars

(***************************************************************************)
(* The response parser on its own: GeminiClient._parse_missions            *)
(***************************************************************************)
MaxTextLen == 4

\* the tokens a raw text is made of
Tokens == {"FJ", "F", "[", "]", ",", "M1", "X"}

\* the raw texts of up to MaxTextLen tokens
RawTexts == UNION { [1..n -> Tokens] : n \in 0..MaxTextLen }

\* a text inside a fenced code block: ```json before it, ``` after it
Fenced(t) == <<"FJ">> \o t \o <<"F">>

InitRawText ==
    /\ InitClient /\ InitRequest /\ InitEntities /\ InitCodec /\ InitThreads
    /\ raw_text \in RawTexts
    /\ parsed = NotParsed
    /\ parsedFenced = NotParsed

\* lines 148-157: _parse_missions(raw_text)
ParseRawText ==
    /\ parsed = NotParsed
    /\ parsed' = parse_missions(raw_text)
    /\ UNCHANGED <<clientVars, orchVars, driverVars, db, histVars, entityVars, codecVars,
                   threads, raw_text, parsedFenced>>

\* lines 148-157: _parse_missions of the text inside a fenced code block
ParseFencedText ==
    /\ parsedFenced = NotParsed
    /\ parsedFenced' = parse_missions(Fenced(raw_text))
    /\ UNCHANGED <<clientVars, orchVars, driverVars, db, histVars, entityVars, codecVars,
                   threads, raw_text, parsed>>

NextParser ==
    \/ ParseRawText
    \/ ParseFencedText

SpecParser == InitRawText /\ [][NextParser]_vars

(***************************************************************************)
(* Properties of the Conversation Driver and the Generation Orchestrator   *)
(***************************************************************************)
IsPrefix(a, b) == Len(a) <= Len(b) /\ SubSeq(b, 1, Len(a)) = a

Last(q) == q[Len(q)]

\* the tool calls made for the response to the latest submission
CurrentRoundLog == SelectSeq(toolLog, LAMBDA e : e.submissions = Len(submitted))

RECURSIVE ToolCallIdx(_, _, _)
\* the indices i..upto of the tool-call parts of resp, ascending
ToolCallIdx(resp, i, upto) ==
    IF i > upto \/ i > Len(resp) THEN <<>>
    ELSE (IF resp[i].function_call THEN <<i>> ELSE <<>>) \o ToolCallIdx(resp, i + 1, upto)

PartsOf(log) == [i \in 1..Len(log) |-> log[i].part]

RECURSIVE ExchangesOf(_, _)
\* the messages the executed tool calls of one response add to the history
ExchangesOf(resp, log) ==
    IF log = <<>> THEN <<>>
    ELSE <<ModelMessage(resp),
           FunctionResponseMessage(Head(log).name, Head(log).outcome.value)>>
         \o ExchangesOf(resp, Tail(log))

AllToolCallReplies ==
    \A i \in 1..Len(replies) :
       ~replies[i].rejected /\ HasToolCall(replies[i].response)

\* C1: with the depth bound 5 and a backend that always asks for a tool call,
\* the driver submits exactly 5 times and fails with the depth error when it
\* attempts the 6th submission; it returns no text in such a run.
C1_DepthBoundState ==
    /\ Len(submitted) <= max_depth
    /\ raised = DepthError =>
          /\ Len(submitted) = max_depth
          /\ cur_depth = max_depth + 1
          /\ AllToolCallReplies
          /\ returned = NoValue
    /\ (pc = "submit" /\ Len(submitted) > 0) => AllToolCallReplies
    /\ (pc = "parse" /\ Len(replies) > 0) => ~HasToolCall(Last(replies).response)

C1_DepthBound ==
    /\ []C1_DepthBoundState
    /\ [][(pc = "submit" /\ Len(submitted) = max_depth)
            => (raised' = DepthError /\ submitted' = submitted /\ pc' = "done")]_vars
    /\ [][(pc = "submit" /\ Len(submitted) < max_depth) => raised' # DepthError]_vars

C1_Witness == raised = DepthError /\ Len(submitted) = 5 /\ Len(toolLog) >= 5

\* C2: a response without any tool-call part completes the driver in that
\* round: no tool is executed, nothing more is submitted, and the text of
\* that response is returned; a first such response completes after exactly
\* one submission.
C2_CompletionState ==
    /\ (pc = "for_part" /\ ~HasToolCall(response)) =>
          /\ answer_available
          /\ CurrentRoundLog = <<>>
          /\ messages = Last(submitted)
    /\ pc = "parse" =>
          /\ ~HasToolCall(response)
          /\ Last(replies) = Answered(response)
          /\ new_missions_str = response_text(response)
          /\ toolLog = <<>> => Len(submitted) = 1

C2_Completion ==
    /\ []C2_CompletionState
    /\ [][(pc = "for_part" /\ ~HasToolCall(response)) =>
            /\ pc' \in {"for_part", "parse"}
            /\ (partIdx > Len(response) => pc' = "parse")
            /\ raised' = NoError
            /\ submitted' = submitted
            /\ toolLog' = toolLog
            /\ messages' = messages]_vars

C2_Witness ==
    /\ pc = "parse"
    /\ Len(submitted) = 1
    /\ toolLog = <<>>
    /\ new_missions_str = <<"[", "M2", "]">>

\* C3: the tool calls of one response are executed in the order of its parts,
\* the result message of a call is in the history before the next call of that
\* response is executed, and all of them happen under the same submission.
C3_ToolCallOrdering ==
    /\ pc = "for_part" =>
          PartsOf(CurrentRoundLog) = ToolCallIdx(response, 1, partIdx - 1)
    /\ (pc = "submit" /\ Len(submitted) > 0) =>
          PartsOf(CurrentRoundLog) = ToolCallIdx(response, 1, Len(response))
    /\ \A i \in 1..Len(toolLog) :
          /\ toolLog[i].submissions >= 1
          /\ i < Len(toolLog) =>
                /\ toolLog[i].submissions <= toolLog[i + 1].submissions
                /\ toolLog[i].submissions = toolLog[i + 1].submissions =>
                      /\ toolLog[i].part < toolLog[i + 1].part
                      /\ Len(toolLog[i + 1].history) = Len(toolLog[i].history) + 2
                      /\ IsPrefix(toolLog[i].history, toolLog[i + 1].history)
                      /\ Last(toolLog[i + 1].history) =
                            FunctionResponseMessage(toolLog[i].name,
                                                    toolLog[i].outcome.value)

C3_Witness ==
    /\ pc = "submit"
    /\ Len(CurrentRoundLog) = 2
    /\ CurrentRoundLog[1].args = "q2"
    /\ CurrentRoundLog[2].args = "q1"

\* C4: for every tool-call part of a response the driver appends the model's
\* response and then a message with the tool's result under the tool's name;
\* earlier messages stay as they are, and each submission carries the whole
\* history, of which every earlier submission is a prefix.
C4_HistoryUpdate ==
    /\ (pc \in {"for_part", "submit"} /\ Len(submitted) > 0) =>
          /\ messages = Last(submitted) \o ExchangesOf(response, CurrentRoundLog)
          /\ \A i \in 1..Len(CurrentRoundLog) :
                /\ response[CurrentRoundLog[i].part].function_call
                /\ response[CurrentRoundLog[i].part].name = CurrentRoundLog[i].name
                /\ response[CurrentRoundLog[i].part].args = CurrentRoundLog[i].args
    /\ (pc = "submit" /\ Len(submitted) > 0) =>
          Len(messages) = Len(Last(submitted))
                          + 2 * Len(ToolCallIdx(response, 1, Len(response)))
    /\ \A i \in 1..Len(submitted) :
          /\ submitted[i][1] = UserMessage(Prompt(mission_type))
          /\ i < Len(submitted) =>
                /\ IsPrefix(submitted[i], submitted[i + 1])
                /\ Len(submitted[i]) < Len(submitted[i + 1])
    /\ (pc \in {"for_part", "submit", "parse"} /\ Len(submitted) > 0) =>
          IsPrefix(Last(submitted), messages)

C4_Witness ==
    /\ Len(submitted) = 2
    /\ Len(submitted[2]) = 5
    /\ pc = "for_part"

\* C5: the pipeline runs exactly k times when the parse first succeeds on
\* attempt k <= attempt_max, and that attempt's result is returned; it runs
\* exactly attempt_max times when every parse fails with JSONDecodeError; no
\* attempt starts after a successful parse, and none beyond attempt_max.
C5_AttemptCountState ==
    /\ attempt <= attempt_max
    /\ Len(parseLog) <= attempt
    /\ \A i \in 1..Len(parseLog) : i < Len(parseLog) => parseLog[i] = JSONDecodeError
    /\ valid_missions_generated <=> (parseLog # <<>> /\ Last(parseLog) = NoError)
    /\ valid_missions_generated =>
          /\ attempt = Len(parseLog)
          /\ missions = parse_missions(new_missions_str).value
    /\ returned # NoValue =>
          /\ attempt = Len(parseLog)
          /\ Last(parseLog) = NoError
          /\ returned = parse_missions(new_missions_str).value
    /\ (pc \in {"for_missions", "done"} /\ raised \in {NoError, UnboundLocalError}
        /\ ~valid_missions_generated) =>
          /\ attempt = attempt_max
          /\ Len(parseLog) = attempt_max

C5_AttemptCount ==
    /\ []C5_AttemptCountState
    /\ [][valid_missions_generated => attempt' = attempt]_vars
    /\ [][attempt' # attempt => (attempt' = attempt + 1 /\ Len(parseLog) = attempt)]_vars

C5_Witness ==
    /\ returned # NoValue
    /\ attempt = 2
    /\ attempt_max = 2
    /\ parseLog = <<JSONDecodeError, NoError>>

\* the run used up its attempts: every attempt ended in JSONDecodeError
Exhausted ==
    /\ pc = "done"
    /\ Len(parseLog) = attempt_max
    /\ \A i \in 1..Len(parseLog) : parseLog[i] = JSONDecodeError

\* C6: when every one of the attempt_max attempts ends in a malformed
\* response (attempt_max = 0 included), the call ends in the dedicated
\* GenerationExhausted failure and returns nothing.
C6_RetryExhaustion ==
    Exhausted => (raised = "GenerationExhausted" /\ returned = NoValue)

C8_BackendRejection ==
    \A i \in 1..Len(replies) :
       replies[i] = Rejected =>
          /\ i = Len(replies)
          /\ Len(submitted) = i
          /\ raised = InvalidArgument
          /\ pc = "done"
          /\ returned = NoValue
          /\ \A k \in 1..Len(toolLog) : toolLog[k].submissions < i
          /\ db = <<>>

C8_Witness ==
    /\ Len(replies) = 3
    /\ replies[3] = Rejected
    /\ Len(toolLog) >= 2

\* the failures of an attempt other than a malformed response
AttemptFailure ==
    IF replies # <<>> /\ Last(replies) = Rejected THEN InvalidArgument
    ELSE IF cur_depth > max_depth THEN DepthError
    ELSE IF toolLog # <<>> /\ Last(toolLog).outcome.err # NoError
         THEN Last(toolLog).outcome.err
    ELSE IF parseLog # <<>> /\ Last(parseLog) \notin {NoError, JSONDecodeError}
         THEN Last(parseLog)
    ELSE NoError

\* C9: an attempt that fails with anything but JSONDecodeError (backend
\* rejection, depth bound, unregistered tool, tool failure, entity validation)
\* is the last attempt: the same failure reaches the caller and nothing is
\* returned; only attempts that ended in JSONDecodeError are followed by
\* another attempt.
C9_OnlyParsingRetriedState ==
    /\ AttemptFailure # NoError =>
          /\ raised = AttemptFailure
          /\ pc = "done"
          /\ returned = NoValue
    /\ \A i \in 1..Len(parseLog) :
          parseLog[i] \notin {NoError, JSONDecodeError} =>
             (i = Len(parseLog) /\ attempt = i /\ raised = parseLog[i])
    /\ raised # NoError => (pc = "done" /\ returned = NoValue)

C9_OnlyParsingRetried ==
    /\ []C9_OnlyParsingRetriedState
    /\ [][attempt' # attempt =>
            /\ raised = NoError
            /\ AttemptFailure = NoError
            /\ \A i \in 1..Len(parseLog) : parseLog[i] = JSONDecodeError]_vars
    /\ [][raised # NoError => UNCHANGED <<orchVars, driverVars, db, histVars>>]_vars

C9_Witness ==
    /\ raised = EntityError
    /\ attempt = 1
    /\ attempt_max = 2
    /\ pc = "done"

(***************************************************************************)
(* Properties of the Mission Entity Model                                  *)
(***************************************************************************)
RECURSIVE SumSeq(_)
SumSeq(q) == IF q = <<>> THEN 0 ELSE Head(q) + SumSeq(Tail(q))

\* the current accumulators of the direct children of node n
ChildrenEco(n) == SumSeq([i \in 1..Len(nodes[n].steps) |-> nodes[nodes[n].steps[i]].ecoPoints])
ChildrenCO2(n) == SumSeq([i \in 1..Len(nodes[n].steps) |-> nodes[nodes[n].steps[i]].CO2InKg])

\* the add_step calls made on node n
AttachesTo(n) == SelectSeq(attachLog, LAMBDA e : e.parent = n)

\* the accumulators the children of n had when they were attached
AttachedEco(n) == SumSeq([i \in 1..Len(AttachesTo(n)) |-> AttachesTo(n)[i].ecoPoints])
AttachedCO2(n) == SumSeq([i \in 1..Len(AttachesTo(n)) |-> AttachesTo(n)[i].CO2InKg])

\* no child of n has received a child of its own since it was attached to n
ChildrenUnchangedSinceAttach(n) ==
    \A i \in 1..Len(AttachesTo(n)) :
       Len(nodes[AttachesTo(n)[i].child].steps) = AttachesTo(n)[i].nsteps

ToolResultsIn(history) ==
    { history[k].parts[1].function_response.response.result :
         k \in { j \in 2..Len(history) : history[j].role = "user" } }

C15_SearchRegistration ==
    /\ tavily_api_key # "None" <=> SearchToolName \in DOMAIN tools_dict
    /\ tavily_api_key # "None" <=> tools = <<SearchToolName>>
    /\ tavily_api_key # "None" => tools_dict[SearchToolName] = SearchToolName
    /\ tavily_api_key = "None" =>
          /\ tools = <<>>
          /\ DOMAIN tools_dict = {}
          /\ \A i \in 1..Len(toolLog) : toolLog[i].outcome.err = KeyError

C15_Witness ==
    /\ tavily_api_key = "None"
    /\ toolLog # <<>>
    /\ raised = KeyError
    /\ Len(submitted) = 1

\* C16: no step of a generation request adds, removes or replaces an entry
\* of the registry: tools and tools_dict stay what startup made them, through
\* successful and failed requests alike.
C16_RegistryReadOnly ==
    /\ [][tools' = tools /\ tools_dict' = tools_dict]_vars
    /\ [](tools = ToolboxAfterInit(tavily_api_key)[1])
    /\ [](tools_dict = ToolboxAfterInit(tavily_api_key)[2])

C16_Witness ==
    /\ pc = "done"
    /\ raised = DepthError
    /\ Len(toolLog) > 5
    /\ tools = <<SearchToolName>>

(***************************************************************************)
(* Properties of attaching children                                        *)
(***************************************************************************)
\* C18: add_step with an object that is no BaseMission raises the ValueError
\* of line 85 and leaves every node, the parent included, as it was: steps,
\* ecoPoints and CO2InKg are unchanged.
C18_RejectedAttachLeavesParent ==
    [][raised' = StepTypeError /\ raised # StepTypeError => nodes' = nodes]_vars

C18_Witness ==
    /\ raised = StepTypeError
    /\ \E p \in 1..Len(nodes) : Len(nodes[p].steps) = 2 /\ nodes[p].ecoPoints = 15

\* the orders in which the children of the set S can be attached
Orderings(S) ==
    { f \in [1..Cardinality(S) -> S] : \A i, j \in 1..Cardinality(S) : f[i] = f[j] => i = j }

\* C19: for every parent and every set of children that can be attached to
\* it, all orders of attaching the children leave the same ecoPoints and the
\* same CO2InKg on the parent.
C19_AttachOrderIndependent ==
    \A parent \in 1..Len(nodes) :
       \A S \in SUBSET { n \in 1..Len(nodes) : CanAttach(attachLog, parent, n) } :
          LET first == CHOOSE f \in Orderings(S) : TRUE
              total == add_steps(nodes, parent, first)[parent]
          IN  \A g \in Orderings(S) :
                 CanAttachAll(attachLog, parent, g) =>
                    /\ add_steps(nodes, parent, g)[parent].ecoPoints = total.ecoPoints
                    /\ add_steps(nodes, parent, g)[parent].CO2InKg = total.CO2InKg

\* two children of different statistics can be attached to a node in either
\* order, and attaching them adds 15 ecoPoints and 35 kg of CO2 to it
C19_Witness ==
    \E p, a, b \in 1..Len(nodes) :
       /\ nodes[a].ecoPoints = 10 /\ nodes[b].ecoPoints = 5
       /\ CanAttachAll(attachLog, p, <<a, b>>)
       /\ CanAttachAll(attachLog, p, <<b, a>>)
       /\ add_steps(nodes, p, <<b, a>>)[p].steps = <<b, a>>
       /\ add_steps(nodes, p, <<a, b>>)[p].ecoPoints = nodes[p].ecoPoints + 15
       /\ add_steps(nodes, p, <<a, b>>)[p].CO2InKg = nodes[p].CO2InKg + 35

\* Project -> Mission -> Step
LevelBelow(parentLevel, childLevel) ==
    \/ parentLevel = LevelProject /\ childLevel = LevelMission
    \/ parentLevel = LevelMission /\ childLevel = LevelStep

TreeShape ==
    \A p \in 1..Len(nodes) :
       \A k \in 1..Len(nodes[p].steps) :
          LevelBelow(nodes[p].level, nodes[nodes[p].steps[k]].level)

Has(key) == key \in mapping[1].keys
Given(key) == mapping[1].val[key]

\* C11 as stated: create_mission_entity_from_dict on a mapping of a mission
\* (it has a title) without regenerationLeft yields a BaseMission whose
\* regenerationLeft is 0 for a weekly project, infinite for an ongoing
\* project, 3 for a weekly mission and the not-regenerable 0 for an ongoing
\* mission and for a step; every other pair of level and type fails with the
\* ValueError of lines 170, 178, 183 and yields nothing.
C11_VariantDefaults ==
    (/\ via = "create_mission_entity_from_dict"
     /\ Has("title") /\ Has("level") /\ Has("type") /\ ~Has("regenerationLeft")) =>
       LET l == Given("level")
           t == Given("type")
           Yields(r) == /\ entity.err = NoError
                        /\ IsBaseMission(entity.obj[1])
                        /\ entity.obj[1].regenerationLeft = r
       IN  CASE l = LevelProject /\ t = "weekly" -> Yields(Num(0))
             [] l = LevelProject /\ t = "ongoing" -> Yields(ONGOING_PROJECT_REGENERATION_MAX)
             [] l = LevelMission /\ t = "weekly" -> Yields(Num(3))
             [] l = LevelMission /\ t = "ongoing" -> Yields(Num(0))
             [] l = LevelStep /\ t \in DOMAIN MissionPeriodTypeMembers -> Yields(Num(0))
             [] l = LevelStep /\ t \notin DOMAIN MissionPeriodTypeMembers -> TRUE
             [] OTHER -> entity.err = VariantError /\ entity.obj = <<>>

\* the scalar fields of BaseMission but status
ScalarFieldsButStatus == BaseMissionFields \ {"steps", "status"}

\* from_dict(to_dict(entity)) is an entity equal to the first in the fields
RoundTrip(fields) ==
    restored # NotRun =>
       /\ restored.err = NoError
       /\ \A f \in fields : restored.obj[1][f] = entity.obj[1][f]

\* C12 as stated: from_dict(to_dict(entity)) is an entity equal to the first
\* in every scalar field, status among them as a member of MissionStatus.
C12_RoundTrip == RoundTrip(ScalarFieldsButStatus \cup {"status"})

\* what from_dict does with the string under a key of an enumeration
Decoded(key, enum) ==
    Has(key) /\ IsStr(Given(key)) =>
       IF Given(key) \in DOMAIN enum
       THEN entity.err = NoError => entity.obj[1][key] = enum[Given(key)]
       ELSE entity.err = KeyError

\* C13 as stated: from_dict converts the strings under level, type and status
\* to the members of their enumerations, and fails with KeyError, yielding
\* no entity, when one of the strings is the value of no member.
C13_EnumDecoding ==
    via = "from_dict" /\ entity.err # TypeError =>
       /\ Decoded("level", MissionLevelMembers)
       /\ Decoded("type", MissionPeriodTypeMembers)
       /\ Decoded("status", MissionStatusMembers)

(***************************************************************************)
(* Properties of requests running at the same time                         *)
(***************************************************************************)
\* the k-th message of a history, k > 1, was made for the call: at the even
\* places a response of the backend to the call, at the odd places the result
\* of a search the call asked for
MadeFor(call, k, msg) ==
    IF k % 2 = 0
    THEN msg.role = "model" /\ msg.parts \in CallResponses(call)
    ELSE /\ msg.role = "user"
         /\ msg.parts[1].function_response.response.result.data = call

\* C17: every call of _submit_prompt, the calls of the later attempts of a
\* request and the calls of requests whose steps interleave included, starts
\* with a history of one user message holding the prompt of its request,
\* and after that message its history holds only the responses made for the
\* call and the results of the tool calls made for the call.
C17_HistoryIsolation ==
    /\ [](\A t \in Requests :
            threads[t].pc # "idle" =>
               /\ threads[t].messages[1] = UserMessage(RequestPrompt(t))
               /\ \A k \in 2..Len(threads[t].messages) :
                     MadeFor(<<t, threads[t].calls>>, k, threads[t].messages[k]))
    /\ [][\A t \in Requests :
            threads'[t].calls # threads[t].calls =>
               threads'[t].messages = <<UserMessage(RequestPrompt(t))>>]_vars

\* r1 is in its second call with one tool exchange in the history, after a
\* first call that held two, while r2 is in the middle of its first call
C17_Witness ==
    /\ threads["r1"].calls = 2
    /\ Len(threads["r1"].messages) = 3
    /\ threads["r1"].pc = "for_part"
    /\ threads["r2"].calls = 1
    /\ Len(threads["r2"].messages) = 5
    /\ threads["r2"].pc = "submit"

(***************************************************************************)
(* Termination and the shape of the submitted histories                    *)
(***************************************************************************)
\* C23: every call of get_new_missions_for_user ends, with a value returned
\* or an exception raised, and up to any moment it has made at most
\* attempt_max * max_depth submissions to the backend, whatever the backend
\* answers.
C23_Termination ==
    /\ <>(pc = "done" /\ (raised # NoError \/ returned # NoValue))
    /\ [](submissions <= attempt_max * max_depth)
    /\ [](attempt <= attempt_max)

C23_Witness ==
    /\ pc = "done"
    /\ attempt_max >= 2
    /\ attempt = attempt_max
    /\ submissions = attempt_max * max_depth
    /\ returned # NoValue

\* the roles of a history: user at the odd places, model at the even ones,
\* the prompt first and a user message last
RolesAlternate(history) ==
    /\ history[1] = UserMessage(Prompt(mission_type))
    /\ \A k \in 1..Len(history) :
          history[k].role = IF k % 2 = 1 THEN "user" ELSE "model"
    /\ Len(history) % 2 = 1

\* C24: every history submitted to the backend starts with the prompt as a
\* user message, alternates between user and model messages and ends with a
\* user message, however many rounds were made and however many tool calls
\* a response holds.
C24_RoleAlternation ==
    \A i \in 1..Len(submitted) : RolesAlternate(submitted[i])

\* a history of three rounds whose first response held two tool calls
C24_Witness ==
    /\ Len(submitted) = 3
    /\ Len(submitted[3]) = 7
    /\ Len(submitted[2]) = 5
    /\ submitted[3][2] = submitted[3][4]
    /\ Len(submitted[3][2].parts) = 2

(***************************************************************************)
(* Properties of the response parser                                       *)
(***************************************************************************)
\* C22 as stated: for every raw text, _parse_missions gives the same outcome,
\* the same missions or the same failure, for the text inside a fenced code
\* block as for the text alone.
C22_FenceStripping ==
    parsed # NotParsed /\ parsedFenced # NotParsed => parsedFenced = parsed

(***************************************************************************)
(* Properties of to_dict                                                   *)
(***************************************************************************)
\* what to_dict made is a mapping that holds the ids of the children in the
\* order of the children, and status and level as plain strings
PersistableForm ==
    /\ persistable.err = NoError
    /\ persistable.obj[1].val.steps
          = [i \in 1..Len(entity.obj[1].steps) |-> entity.obj[1].steps[i].id]
    /\ persistable.obj[1].val.status \in DOMAIN MissionStatusMembers
    /\ persistable.obj[1].val.level \in DOMAIN MissionLevelMembers

\* C21 as stated: to_dict of an entity whose children all have an id yields
\* a mapping whose steps are the ids of the children in their order and whose
\* status and level are plain strings; to_dict of an entity one of whose
\* children has no id fails and yields no mapping.
C21_PersistableForm ==
    (persistable # NotRun /\ IsBaseMission(entity.obj[1])) =>
       IF \A i \in 1..Len(entity.obj[1].steps) : entity.obj[1].steps[i].id # Unassigned
       THEN PersistableForm
       ELSE persistable.err # NoError /\ persistable.obj = <<>>

====
